---- MODULE Spec2Model ----
(***************************************************************************)
(* A model of scripts/fetch_data.py: the daily batch job that fetches      *)
(* insider transactions per registry symbol (api_call with retries, the    *)
(* filter, the date sort, the dedupe), writes insider.json, builds and     *)
(* writes the summary, and fetches one candle file per active symbol.      *)
(*                                                                         *)
(* Python strings whose characters matter (dates, names, symbols, codes,   *)
(* dedupe keys) are sequences of one-character strings, so that parsing,   *)
(* formatting, upper-casing and lexicographic comparison are computed.     *)
(* Money is counted in thousandths of a dollar (mills), share counts in    *)
(* whole shares.  Time is counted in half-days: 2*ordinal is midnight of   *)
(* that day, 2*ordinal+1 any later instant of the same day.                *)
(***************************************************************************)
EXTENDS Integers, Sequences, FiniteSets, TLC

VARIABLES
    apiKey,        \* API_KEY read from the environment
    pc,            \* position of main / of the function under check
    clock,         \* current wall-clock time (half-days)
    startClock,    \* the time the run started
    i,             \* index of the symbol of the transaction loop
    log,           \* attempts of the api_call in progress or just returned
    ret,           \* "running", "None" or "json": what api_call returned
    body,          \* "none", "empty" or "data": shape of the JSON body
    cutoff,        \* cutoff computed for the symbol being filtered
    filtered,      \* the list `filtered` of the symbol being filtered
    all_tx,        \* the list `all_tx`
    requested,     \* symbols for which an HTTP request went to Finnhub
    txOutcome,     \* per processed symbol: "data", "empty" or "exhausted"
    transactions,  \* the deduplicated list main holds
    insiderJson,   \* content of data/insider.json written in this run
    summary,       \* the summary built by build_summary
    summaryJson,   \* content of data/summary.json written in this run
    j,             \* index of the symbol of the candle loop
    candleOutcome, \* per processed active symbol: "data", "empty", "error"
    candleFiles    \* symbols whose candle file was written in this run

vars == <<apiKey, pc, clock, startClock, i, log, ret, body, cutoff, filtered,
          all_tx, requested, txOutcome, transactions, insiderJson, summary,
          summaryJson, j, candleOutcome, candleFiles>>

-----------------------------------------------------------------------------
(* Bounds of the model. *)

\* The provider's responses of one run hold at most MaxTx records that pass
\* the filter (records the filter drops are not limited).
MaxTx == 2
\* The clock advances by at most ClockTicks half-days during a run.
ClockTicks == 1
\* Longest input of build_summary drawn from the mixed record universe.
MaxLen == 3
\* Longest input of build_summary drawn for the rankings (one entity each).
MaxRank == 6

(* Program constants. *)
Retries == 3
LookbackDays == 180
TopN == 5

-----------------------------------------------------------------------------
(* Characters and strings. *)

Alphabet ==
    <<" ", "-", "/", "0", "1", "2", "3", "4", "5", "6", "7", "8", "9",
      "A", "B", "C", "D", "E", "F", "G", "H", "I", "J", "K", "L", "M",
      "N", "O", "P", "Q", "R", "S", "T", "U", "V", "W", "X", "Y", "Z",
      "a", "b", "c", "d", "e", "f", "g", "h", "i", "j", "k", "l", "m",
      "n", "o", "p", "q", "r", "s", "t", "u", "v", "w", "x", "y", "z">>

\* Position of a character in code-point order.
Ord(c) == CHOOSE k \in 1..Len(Alphabet) : Alphabet[k] = c

IsDigit(c) == Ord(c) >= Ord("0") /\ Ord(c) <= Ord("9")

DigitVal(c) == Ord(c) - Ord("0")

DigitChar(d) == Alphabet[Ord("0") + d]

\* str.upper() on one character.
UpperChar(c) ==
    IF Ord(c) >= Ord("a") /\ Ord(c) <= Ord("z")
    THEN Alphabet[Ord(c) - Ord("a") + Ord("A")]
    ELSE c

\* str.upper()
Upper(s) == [k \in 1..Len(s) |-> UpperChar(s[k])]

\* Python's < on str: lexicographic by code point.
RECURSIVE StrLess(_, _)
StrLess(a, b) ==
    IF a = <<>> THEN b # <<>>
    ELSE IF b = <<>> THEN FALSE
    ELSE IF Head(a) = Head(b) THEN StrLess(Tail(a), Tail(b))
    ELSE Ord(Head(a)) < Ord(Head(b))

RECURSIVE NatToStr(_)
NatToStr(n) ==
    IF n < 10 THEN <<DigitChar(n)>>
    ELSE NatToStr(n \div 10) \o <<DigitChar(n % 10)>>

\* The f-string formatting of an int.
IntToStr(n) == IF n < 0 THEN <<"-">> \o NatToStr(-n) ELSE NatToStr(n)

-----------------------------------------------------------------------------
(* datetime.strptime(s, "%Y-%m-%d") and the cutoff comparison. *)

IsLeap(y) == (y % 4 = 0) /\ ((y % 100 # 0) \/ (y % 400 = 0))

DaysInMonth(y, m) ==
    IF m = 2 THEN (IF IsLeap(y) THEN 29 ELSE 28)
    ELSE IF m \in {4, 6, 9, 11} THEN 30 ELSE 31

RECURSIVE DaysBeforeMonth(_, _)
DaysBeforeMonth(y, m) ==
    IF m = 1 THEN 0 ELSE DaysBeforeMonth(y, m - 1) + DaysInMonth(y, m - 1)

\* date.toordinal(): 0001-01-01 is day 1.
ToOrdinal(y, m, d) ==
    365 * (y - 1) + ((y - 1) \div 4) - ((y - 1) \div 100) + ((y - 1) \div 400)
    + DaysBeforeMonth(y, m) + d

\* %m: 1[0-2]|0[1-9]|[1-9]
MonthMatch(f) ==
    \/ Len(f) = 2 /\ f[1] = "1" /\ f[2] \in {"0", "1", "2"}
    \/ Len(f) = 2 /\ f[1] = "0" /\ IsDigit(f[2]) /\ f[2] # "0"
    \/ Len(f) = 1 /\ IsDigit(f[1]) /\ f[1] # "0"

\* %d: 3[0-1]|[1-2]\d|0[1-9]|[1-9]| [1-9]
DayMatch(f) ==
    \/ Len(f) = 2 /\ f[1] = "3" /\ f[2] \in {"0", "1"}
    \/ Len(f) = 2 /\ f[1] \in {"1", "2"} /\ IsDigit(f[2])
    \/ Len(f) = 2 /\ f[1] \in {"0", " "} /\ IsDigit(f[2]) /\ f[2] # "0"
    \/ Len(f) = 1 /\ IsDigit(f[1]) /\ f[1] # "0"

RECURSIVE FieldVal(_)
FieldVal(f) ==
    IF f = <<>> THEN 0
    ELSE LET c == f[Len(f)]
             rest == FieldVal(SubSeq(f, 1, Len(f) - 1))
         IN  IF c = " " THEN rest ELSE 10 * rest + DigitVal(c)

ValueError == [ok |-> FALSE, ord |-> 0]

\* The parse: [ok |-> TRUE, ord |-> ordinal of the date], or ValueError.
Strptime(s) ==
    LET n == Len(s)
        headOk == /\ n >= 8
                  /\ \A k \in 1..4 : IsDigit(s[k])
                  /\ s[5] = "-"
        mlen == IF headOk /\ s[7] = "-" THEN 1 ELSE 2
        mf == SubSeq(s, 6, 5 + mlen)
        sepOk == headOk /\ n >= 7 + mlen /\ s[6 + mlen] = "-"
        df == SubSeq(s, 7 + mlen, n)
        y == FieldVal(SubSeq(s, 1, 4))
        m == FieldVal(mf)
        d == FieldVal(df)
    IN  IF sepOk /\ MonthMatch(mf) /\ DayMatch(df)
           /\ y >= 1 /\ d <= DaysInMonth(y, m)
        THEN [ok |-> TRUE, ord |-> ToOrdinal(y, m, d)]
        ELSE ValueError

\* tx_date < cutoff, tx_date being midnight of the parsed day.
BeforeCutoff(ord, cut) == 2 * ord < cut

\* datetime.now() - timedelta(days=180)
Cutoff(now) == now - 2 * LookbackDays

-----------------------------------------------------------------------------
(* The Symbol Registry: the first entries of SP500, in source order. *)

AAPL == <<"A", "A", "P", "L">>
MSFT == <<"M", "S", "F", "T">>
AMZN == <<"A", "M", "Z", "N">>

SP500 ==
    << [sym |-> AAPL, n |-> "Apple",     s |-> "Technology"],
       [sym |-> MSFT, n |-> "Microsoft", s |-> "Technology"],
       [sym |-> AMZN, n |-> "Amazon",    s |-> "Consumer"] >>

\* list(SP500.keys())
Symbols == [k \in 1..Len(SP500) |-> SP500[k].sym]

-----------------------------------------------------------------------------
(* What the provider may send. *)

CodeP == <<"P">>
CodeS == <<"S">>

Al == <<"A", "l">>
Bo == <<"B", "o">>
Unknown == <<"U", "n", "k", "n", "o", "w", "n">>

Today == ToOrdinal(2026, 11, 4)

D_Oct01   == <<"2", "0", "2", "6", "-", "1", "0", "-", "0", "1">>
D_Oct03   == <<"2", "0", "2", "6", "-", "1", "0", "-", "0", "3">>
D_Sep30u  == <<"2", "0", "2", "6", "-", "9", "-", "3", "0">>
D_Feb30   == <<"2", "0", "2", "6", "-", "0", "2", "-", "3", "0">>
D_Slashes == <<"2", "0", "2", "6", "/", "1", "0", "/", "0", "1">>
D_Jan15   == <<"2", "0", "2", "6", "-", "0", "1", "-", "1", "5">>
D_May08   == <<"2", "0", "2", "6", "-", "0", "5", "-", "0", "8">>
D_Future  == <<"2", "0", "2", "7", "-", "0", "1", "-", "0", "1">>

\* Raw transaction objects of a provider response; a key that is absent is a
\* field the provider left out.
RawUniverse ==
    << \* a purchase in the window
       [transactionCode |-> <<"P">>, transactionDate |-> D_Oct01,
        filingDate |-> D_Oct03, change |-> 5, name |-> Al,
        transactionPrice |-> 1002, share |-> 100],
       \* the same trade filed again: no transaction date, another filing date
       [transactionCode |-> <<"P">>, filingDate |-> D_Oct01, change |-> 5,
        name |-> Al, transactionPrice |-> 2000],
       \* a sale, lower-case code, date without zero padding
       [transactionCode |-> <<"s">>, transactionDate |-> D_Sep30u,
        filingDate |-> D_Oct03, change |-> -5, name |-> Bo,
        transactionPrice |-> 2000, share |-> 0],
       \* an award
       [transactionCode |-> <<"A">>, transactionDate |-> D_Oct01,
        filingDate |-> D_Oct03, change |-> 5, name |-> Al,
        transactionPrice |-> 0, share |-> 100],
       \* no code
       [transactionDate |-> D_Oct01, filingDate |-> D_Oct03, change |-> 5,
        name |-> Al, transactionPrice |-> 1002, share |-> 100],
       \* no change of the holding
       [transactionCode |-> <<"P">>, transactionDate |-> D_Oct01,
        filingDate |-> D_Oct03, change |-> 0, name |-> Bo,
        transactionPrice |-> 1002, share |-> 100],
       [transactionCode |-> <<"S">>, transactionDate |-> D_Oct01,
        filingDate |-> D_Oct03, name |-> Bo, transactionPrice |-> 1002],
       \* dates that do not parse
       [transactionCode |-> <<"P">>, transactionDate |-> D_Feb30,
        filingDate |-> D_Oct03, change |-> 5, name |-> Al,
        transactionPrice |-> 1002, share |-> 100],
       [transactionCode |-> <<"S">>, transactionDate |-> D_Slashes,
        filingDate |-> D_Oct03, change |-> -5, name |-> Bo,
        transactionPrice |-> 1002, share |-> 100],
       [transactionCode |-> <<"P">>, transactionDate |-> <<>>, change |-> 5,
        name |-> Al, transactionPrice |-> 1002, share |-> 100],
       \* older than the window
       [transactionCode |-> <<"P">>, transactionDate |-> D_Jan15,
        filingDate |-> D_Jan15, change |-> 5, name |-> Al,
        transactionPrice |-> 1002, share |-> 100],
       \* exactly 180 days before Today
       [transactionCode |-> <<"S">>, transactionDate |-> D_May08,
        filingDate |-> D_May08, change |-> -5, name |-> Al,
        transactionPrice |-> 1002, share |-> 100],
       \* dated after the run, no name, no price
       [transactionCode |-> <<"S">>, transactionDate |-> D_Future,
        filingDate |-> D_Future, change |-> -5, share |-> 100] >>

-----------------------------------------------------------------------------
(* fetch_insider_transactions: the filter, the sort, the dedupe. *)

\* tx.get(k, dflt)
Get(tx, k, dflt) == IF k \in DOMAIN tx THEN tx[k] ELSE dflt

\* tx.get(k) or alt, for a string field
GetOr(tx, k, alt) == IF k \in DOMAIN tx /\ tx[k] # <<>> THEN tx[k] ELSE alt

\* code not in ("P", "S")
CodeRejected(code) == code \notin {CodeP, CodeS}

\* Variant: only a missing change is rejected.
ChangeRejectedMissingOnly(tx) == "change" \notin DOMAIN tx

\* not tx.get("change") or tx["change"] == 0
ChangeRejected(tx) == "change" \notin DOMAIN tx \/ tx["change"] = 0

\* tx.get("transactionDate") or tx.get("filingDate") or ""
EffectiveDate(tx) == GetOr(tx, "transactionDate", GetOr(tx, "filingDate", <<>>))

\* One pass of the loop over data["data"]: the records appended to `filtered`.
FilterStep(tx, sym, cut) ==
    LET code == Upper(GetOr(tx, "transactionCode", <<>>))
        tx_date_str == EffectiveDate(tx)
        tx_date == Strptime(tx_date_str)
    IN  IF CodeRejected(code) THEN <<>>
        ELSE IF ~tx_date.ok THEN <<>>
        ELSE IF BeforeCutoff(tx_date.ord, cut) THEN <<>>
        ELSE IF ChangeRejected(tx) THEN <<>>
        ELSE << [sym      |-> sym,
                 name     |-> Get(tx, "name", Unknown),
                 code     |-> code,
                 change   |-> tx["change"],
                 price    |-> Get(tx, "transactionPrice", 0),
                 share    |-> Get(tx, "share", 0),
                 txDate   |-> tx_date_str,
                 fileDate |-> Get(tx, "filingDate", <<>>)] >>

\* The position x takes in a list sorted by txDate, reverse=True: behind every
\* element whose key is not smaller (the sort is stable).
RECURSIVE InsertDesc(_, _)
InsertDesc(s, x) ==
    IF s = <<>> THEN <<x>>
    ELSE IF StrLess(Head(s).txDate, x.txDate) THEN <<x>> \o s
    ELSE <<Head(s)>> \o InsertDesc(Tail(s), x)

RECURSIVE SortByDateDesc(_)
SortByDateDesc(s) ==
    IF s = <<>> THEN <<>>
    ELSE InsertDesc(SortByDateDesc(SubSeq(s, 1, Len(s) - 1)), s[Len(s)])

\* Variant: the key leaves out the symbol.
DedupeKeyNoSymbol(tx) ==
    tx.name \o <<"-">> \o tx.txDate \o <<"-">> \o IntToStr(tx.change)

\* f"{tx['name']}-{tx['txDate']}-{tx['change']}-{tx['sym']}"
DedupeKey(tx) ==
    tx.name \o <<"-">> \o tx.txDate \o <<"-">> \o IntToStr(tx.change)
    \o <<"-">> \o tx.sym

RECURSIVE DedupeFrom(_, _, _)
DedupeFrom(s, seen, deduped) ==
    IF s = <<>> THEN deduped
    ELSE LET key == DedupeKey(Head(s))
         IN  IF key \notin seen
             THEN DedupeFrom(Tail(s), seen \cup {key}, Append(deduped, Head(s)))
             ELSE DedupeFrom(Tail(s), seen, deduped)

Dedupe(s) == DedupeFrom(s, {}, <<>>)

-----------------------------------------------------------------------------
(* build_summary.  A dict is the sequence of its entries in insertion order; *)
(* its items() are that sequence.                                            *)

Abs(x) == IF x < 0 THEN -x ELSE x

Min(a, b) == IF a < b THEN a ELSE b

\* Variant: the value keeps the sign of the change.
ValSigned(tx) == tx.change * tx.price

\* abs(tx["change"] * tx["price"])
Val(tx) == Abs(tx.change * tx.price)

\* round(v, 2): to the nearest cent (10 mills), a tie to the even cent.
Round2(v) ==
    LET q == v \div 10
        r == v % 10
    IN  IF r < 5 THEN 10 * q
        ELSE IF r > 5 THEN 10 * (q + 1)
        ELSE IF q % 2 = 0 THEN 10 * q ELSE 10 * (q + 1)

IsBuy(tx) == tx.code = CodeP

IsSell(tx) == tx.code = CodeS

Buys(txs) == SelectSeq(txs, IsBuy)

Sells(txs) == SelectSeq(txs, IsSell)

RECURSIVE SumVal(_)
SumVal(txs) == IF txs = <<>> THEN 0 ELSE Val(Head(txs)) + SumVal(Tail(txs))

HasKey(d, k) == \E p \in 1..Len(d) : d[p].key = k

KeyPos(d, k) == CHOOSE p \in 1..Len(d) : d[p].key = k

\* buy_stocks / sell_stocks: setdefault, total += val, count += 1
StockAdd(d, tx) ==
    LET d1 == IF HasKey(d, tx.sym) THEN d
              ELSE Append(d, [key |-> tx.sym, total |-> 0, count |-> 0])
        p == KeyPos(d1, tx.sym)
    IN  [d1 EXCEPT ![p].total = @ + Val(tx), ![p].count = @ + 1]

\* Variant: the comparison admits an unchanged total.
BuyInsiderCondOrEqual(d, tx) ==
    \/ ~HasKey(d, tx.name)
    \/ d[KeyPos(d, tx.name)].total <= Val(tx) + d[KeyPos(d, tx.name)].total

\* The condition of the buy-insider branch.
BuyInsiderCond(d, tx) ==
    \/ ~HasKey(d, tx.name)
    \/ d[KeyPos(d, tx.name)].total < Val(tx) + d[KeyPos(d, tx.name)].total

\* setdefault, total += val, txs.append(...)
InsiderAdd(d, tx) ==
    LET d1 == IF HasKey(d, tx.name) THEN d
              ELSE Append(d, [key |-> tx.name, total |-> 0, sym |-> tx.sym,
                              txs |-> <<>>])
        p == KeyPos(d1, tx.name)
    IN  [d1 EXCEPT ![p].total = @ + Val(tx),
                   ![p].txs = Append(@, [sym |-> tx.sym, date |-> tx.txDate,
                                         val |-> Val(tx)])]

BuyInsiderAdd(d, tx) == IF BuyInsiderCond(d, tx) THEN InsiderAdd(d, tx) ELSE d

RECURSIVE BuyStocksFrom(_, _)
BuyStocksFrom(txs, d) ==
    IF txs = <<>> THEN d
    ELSE BuyStocksFrom(Tail(txs),
                       IF IsBuy(Head(txs)) THEN StockAdd(d, Head(txs)) ELSE d)

RECURSIVE SellStocksFrom(_, _)
SellStocksFrom(txs, d) ==
    IF txs = <<>> THEN d
    ELSE SellStocksFrom(Tail(txs),
                        IF IsBuy(Head(txs)) THEN d ELSE StockAdd(d, Head(txs)))

RECURSIVE BuyInsidersFrom(_, _)
BuyInsidersFrom(txs, d) ==
    IF txs = <<>> THEN d
    ELSE BuyInsidersFrom(Tail(txs),
                         IF IsBuy(Head(txs)) THEN BuyInsiderAdd(d, Head(txs))
                         ELSE d)

RECURSIVE SellInsidersFrom(_, _)
SellInsidersFrom(txs, d) ==
    IF txs = <<>> THEN d
    ELSE SellInsidersFrom(Tail(txs),
                          IF IsBuy(Head(txs)) THEN d
                          ELSE InsiderAdd(d, Head(txs)))

BuyStocks(txs) == BuyStocksFrom(txs, <<>>)

SellStocks(txs) == SellStocksFrom(txs, <<>>)

BuyInsiders(txs) == BuyInsidersFrom(txs, <<>>)

SellInsiders(txs) == SellInsidersFrom(txs, <<>>)

\* SP500.get(sym): the registry entries of the symbol (none or one).
Registered(sym) == \E k \in 1..Len(SP500) : SP500[k].sym = sym

SectorOf(sym) == SP500[CHOOSE k \in 1..Len(SP500) : SP500[k].sym = sym].s

\* Variant: a symbol the registry does not hold is booked under "Other".
SectorAddOther(d, tx) ==
    LET sec == IF Registered(tx.sym) THEN SectorOf(tx.sym) ELSE "Other"
        d1 == IF HasKey(d, sec) THEN d
              ELSE Append(d, [key |-> sec, buys |-> 0, sells |-> 0])
        p == KeyPos(d1, sec)
    IN  IF IsBuy(tx) THEN [d1 EXCEPT ![p].buys = @ + Val(tx)]
        ELSE [d1 EXCEPT ![p].sells = @ + Val(tx)]

\* if not info: continue; setdefault; buys += val or sells += val
SectorAdd(d, tx) ==
    IF ~Registered(tx.sym) THEN d
    ELSE LET sec == SectorOf(tx.sym)
             d1 == IF HasKey(d, sec) THEN d
                   ELSE Append(d, [key |-> sec, buys |-> 0, sells |-> 0])
             p == KeyPos(d1, sec)
         IN  IF IsBuy(tx) THEN [d1 EXCEPT ![p].buys = @ + Val(tx)]
             ELSE [d1 EXCEPT ![p].sells = @ + Val(tx)]

RECURSIVE SectorsFrom(_, _)
SectorsFrom(txs, d) ==
    IF txs = <<>> THEN d ELSE SectorsFrom(Tail(txs), SectorAdd(d, Head(txs)))

Sectors(txs) == SectorsFrom(txs, <<>>)

\* sorted(..., key=lambda x: -K(x)): descending by K, equal keys in the order
\* they had (the sort is stable).
\* sorted(s, key=lambda x: -key(x)), keys[p] being the key of s[p]: the place
\* of s[p] is behind every element with a larger key and every earlier
\* element with the same key (the sort is stable).
PlaceDesc(keys, p) ==
    1 + Cardinality({q \in 1..Len(keys) :
                        \/ keys[q] > keys[p]
                        \/ keys[q] = keys[p] /\ q < p})

SortedDesc(s, keys) ==
    [r \in 1..Len(s) |-> s[CHOOSE p \in 1..Len(s) : PlaceDesc(keys, p) = r]]

\* key=lambda x: -x[1]["total"]
Totals(d) == [p \in 1..Len(d) |-> d[p].total]

\* key=lambda t: -t["val"]
Vals(txs) == [p \in 1..Len(txs) |-> txs[p].val]

\* key=lambda x: -(x[1]["buys"] + x[1]["sells"])
SectorTotals(d) == [p \in 1..Len(d) |-> d[p].buys + d[p].sells]

\* Variant: the slice is one too long.
TopOffByOne(s) == SubSeq(s, 1, Min(TopN + 1, Len(s)))

\* [:5]
Top(s) == SubSeq(s, 1, Min(TopN, Len(s)))

TopStocks(d) == Top(SortedDesc(d, Totals(d)))

TopInsiders(d) ==
    Top(SortedDesc([p \in 1..Len(d) |->
                       [key |-> d[p].key, total |-> d[p].total,
                        sym |-> d[p].sym,
                        txs |-> Top(SortedDesc(d[p].txs, Vals(d[p].txs)))]],
                   Totals(d)))

build_summary(txs) ==
    [buyCount        |-> Len(Buys(txs)),
     sellCount       |-> Len(Sells(txs)),
     buyVal          |-> Round2(SumVal(Buys(txs))),
     sellVal         |-> Round2(SumVal(Sells(txs))),
     uniqueSymbols   |-> Cardinality({txs[k].sym : k \in 1..Len(txs)}),
     topBuyStocks    |-> TopStocks(BuyStocks(txs)),
     topSellStocks   |-> TopStocks(SellStocks(txs)),
     topBuyInsiders  |-> TopInsiders(BuyInsiders(txs)),
     topSellInsiders |-> TopInsiders(SellInsiders(txs)),
     sectors         |-> SortedDesc(Sectors(txs), SectorTotals(Sectors(txs)))]

-----------------------------------------------------------------------------
(* main and the functions it calls, as steps. *)

NoFile == [written |-> FALSE]

NoSummary == [built |-> FALSE]

File(content) == [written |-> TRUE, content |-> content]

\* Variant: the credential is not checked.
KeyNeverMissing(k) == FALSE

\* if not API_KEY
KeyMissing(k) == k = ""

\* Variant: the wait after a 429 does not grow with the attempt.
WaitAfterFlat(status, attempt) ==
    IF status = "429" THEN 30
    ELSE IF status = "403" THEN 60
    ELSE 5

\* time.sleep(...) of a failed attempt, in seconds; attempt counts from 0.
WaitAfter(status, attempt) ==
    IF status = "429" THEN 30 * (attempt + 1)
    ELSE IF status = "403" THEN 60
    ELSE 5

\* for attempt in range(retries): whether another request is issued
MayAttempt(made) == made < Retries

\* data and "data" in data and data["data"]
HasData(r, b) == r = "json" /\ b = "data"

\* sorted(set(tx["sym"] for tx in transactions))
ActiveSymbols(txs) ==
    LET S == {txs[k].sym : k \in 1..Len(txs)}
    IN  [r \in 1..Cardinality(S) |->
            CHOOSE x \in S : Cardinality({y \in S : StrLess(y, x)}) = r - 1]

Main_NoKey ==
    /\ pc = "main"
    /\ KeyMissing(apiKey)
    /\ pc' = "aborted"
    /\ UNCHANGED <<apiKey, clock, startClock, i, log, ret, body, cutoff,
                   filtered, all_tx, requested, txOutcome, transactions,
                   insiderJson, summary, summaryJson, j, candleOutcome,
                   candleFiles>>

Main_Start ==
    /\ pc = "main"
    /\ ~KeyMissing(apiKey)
    /\ pc' = "loop"
    /\ i' = 1
    /\ UNCHANGED <<apiKey, clock, startClock, log, ret, body, cutoff,
                   filtered, all_tx, requested, txOutcome, transactions,
                   insiderJson, summary, summaryJson, j, candleOutcome,
                   candleFiles>>

\* The loop over the symbols calls api_call for the next symbol.
BeginSymbol ==
    /\ pc = "loop"
    /\ i <= Len(Symbols)
    /\ pc' = "api"
    /\ log' = <<>>
    /\ ret' = "running"
    /\ body' = "none"
    /\ UNCHANGED <<apiKey, clock, startClock, i, cutoff, filtered, all_tx,
                   requested, txOutcome, transactions, insiderJson, summary,
                   summaryJson, j, candleOutcome, candleFiles>>

\* One request of api_call that fails with `status`: the wait, then the next
\* attempt, or None once the attempts are used up.
ApiFailed(status) ==
    /\ pc = "api"
    /\ MayAttempt(Len(log))
    /\ requested' = requested \cup {Symbols[i]}
    /\ log' = Append(log, [status |-> status,
                           wait |-> WaitAfter(status, Len(log))])
    /\ IF MayAttempt(Len(log) + 1)
       THEN UNCHANGED <<pc, ret>>
       ELSE pc' = "returned" /\ ret' = "None"
    /\ UNCHANGED <<apiKey, clock, startClock, i, body, cutoff, filtered,
                   all_tx, txOutcome, transactions, insiderJson, summary,
                   summaryJson, j, candleOutcome, candleFiles>>

ApiRateLimited == ApiFailed("429")

ApiForbidden == ApiFailed("403")

\* A connection error, a timeout, another HTTP error, or a body that is no JSON.
ApiError == ApiFailed("error")

\* A request that succeeds: api_call returns the decoded body.
ApiOk ==
    /\ pc = "api"
    /\ MayAttempt(Len(log))
    /\ requested' = requested \cup {Symbols[i]}
    /\ log' = Append(log, [status |-> "200", wait |-> 0])
    /\ ret' = "json"
    /\ body' \in {"falsy", "nodatakey", "emptydata", "data"}
    /\ pc' = "returned"
    /\ UNCHANGED <<apiKey, clock, startClock, i, cutoff, filtered, all_tx,
                   txOutcome, transactions, insiderJson, summary,
                   summaryJson, j, candleOutcome, candleFiles>>

\* The else branch: "no data", the pause, the next symbol.
HandleNoData ==
    /\ pc = "returned"
    /\ ~HasData(ret, body)
    /\ txOutcome' = Append(txOutcome,
                           IF ret = "None" THEN "exhausted" ELSE "empty")
    /\ i' = i + 1
    /\ pc' = "loop"
    /\ log' = <<>>
    /\ ret' = "idle"
    /\ body' = "none"
    /\ UNCHANGED <<apiKey, clock, startClock, cutoff, filtered, all_tx,
                   requested, transactions, insiderJson, summary,
                   summaryJson, j, candleOutcome, candleFiles>>

\* The if branch: the cutoff is taken from the clock, `filtered` starts empty.
BeginFilter ==
    /\ pc = "returned"
    /\ HasData(ret, body)
    /\ \E now \in clock..(startClock + ClockTicks) :
          /\ clock' = now
          /\ cutoff' = Cutoff(now)
    /\ filtered' = <<>>
    /\ pc' = "filter"
    /\ log' = <<>>
    /\ ret' = "idle"
    /\ body' = "none"
    /\ UNCHANGED <<apiKey, startClock, i, all_tx, requested, txOutcome,
                   transactions, insiderJson, summary, summaryJson, j,
                   candleOutcome, candleFiles>>

\* The loop over data["data"] takes the next record of the response.
FilterRecord ==
    /\ pc = "filter"
    /\ \E k \in 1..Len(RawUniverse) :
          LET kept == FilterStep(RawUniverse[k], Symbols[i], cutoff)
          IN  /\ Len(all_tx) + Len(filtered) + Len(kept) <= MaxTx
              /\ filtered' = filtered \o kept
    /\ UNCHANGED <<apiKey, pc, clock, startClock, i, log, ret, body, cutoff,
                   all_tx, requested, txOutcome, transactions, insiderJson,
                   summary, summaryJson, j, candleOutcome, candleFiles>>

\* The response is exhausted: all_tx.extend(filtered), the pause, the next symbol.
EndOfData ==
    /\ pc = "filter"
    /\ all_tx' = all_tx \o filtered
    /\ filtered' = <<>>
    /\ cutoff' = 0
    /\ txOutcome' = Append(txOutcome, "data")
    /\ i' = i + 1
    /\ pc' = "loop"
    /\ UNCHANGED <<apiKey, clock, startClock, log, ret, body, requested,
                   transactions, insiderJson, summary, summaryJson, j,
                   candleOutcome, candleFiles>>

\* After the last symbol: the sort, the dedupe, the return to main.
FetchReturn ==
    /\ pc = "loop"
    /\ i > Len(Symbols)
    /\ transactions' = Dedupe(SortByDateDesc(all_tx))
    /\ pc' = "save_insider"
    /\ UNCHANGED <<apiKey, clock, startClock, i, log, ret, body, cutoff,
                   filtered, all_tx, requested, txOutcome, insiderJson,
                   summary, summaryJson, j, candleOutcome, candleFiles>>

SaveInsider ==
    /\ pc = "save_insider"
    /\ insiderJson' = File(transactions)
    /\ pc' = "save_summary"
    /\ UNCHANGED <<apiKey, clock, startClock, i, log, ret, body, cutoff,
                   filtered, all_tx, requested, txOutcome, transactions,
                   summary, summaryJson, j, candleOutcome, candleFiles>>

SaveSummary ==
    /\ pc = "save_summary"
    /\ summary' = build_summary(transactions)
    /\ summaryJson' = File(summary')
    /\ j' = 1
    /\ pc' = "candles"
    /\ UNCHANGED <<apiKey, clock, startClock, i, log, ret, body, cutoff,
                   filtered, all_tx, requested, txOutcome, transactions,
                   insiderJson, candleOutcome, candleFiles>>

\* Variant: an exception of the price provider is not caught.
CandleStepUncaught(outcome) ==
    /\ pc = "candles"
    /\ j <= Len(ActiveSymbols(transactions))
    /\ candleOutcome' = Append(candleOutcome, outcome)
    /\ candleFiles' = IF outcome = "data"
                      THEN candleFiles \cup {ActiveSymbols(transactions)[j]}
                      ELSE candleFiles
    /\ IF outcome = "error"
       THEN pc' = "failed" /\ j' = j
       ELSE pc' = pc /\ j' = j + 1
    /\ UNCHANGED <<apiKey, clock, startClock, i, log, ret, body, cutoff,
                   filtered, all_tx, requested, txOutcome, transactions,
                   insiderJson, summary, summaryJson>>

\* One pass of fetch_candles' loop, by what the price provider does.
CandleStep(outcome) ==
    /\ pc = "candles"
    /\ j <= Len(ActiveSymbols(transactions))
    /\ candleOutcome' = Append(candleOutcome, outcome)
    /\ candleFiles' = IF outcome = "data"
                      THEN candleFiles \cup {ActiveSymbols(transactions)[j]}
                      ELSE candleFiles
    /\ j' = j + 1
    /\ UNCHANGED <<apiKey, pc, clock, startClock, i, log, ret, body, cutoff,
                   filtered, all_tx, requested, txOutcome, transactions,
                   insiderJson, summary, summaryJson>>

CandleData == CandleStep("data")

\* df.empty: "no data", continue
CandleEmpty == CandleStep("empty")

\* except Exception: the error is printed
CandleError == CandleStep("error")

Main_Done ==
    /\ pc = "candles"
    /\ j > Len(ActiveSymbols(transactions))
    /\ pc' = "done"
    /\ UNCHANGED <<apiKey, clock, startClock, i, log, ret, body, cutoff,
                   filtered, all_tx, requested, txOutcome, transactions,
                   insiderJson, summary, summaryJson, j, candleOutcome,
                   candleFiles>>

\* build_summary called on a list of its own.
BuildSummary ==
    /\ pc = "build_summary"
    /\ summary' = build_summary(transactions)
    /\ pc' = "summary_built"
    /\ UNCHANGED <<apiKey, clock, startClock, i, log, ret, body, cutoff,
                   filtered, all_tx, requested, txOutcome, transactions,
                   insiderJson, summaryJson, j, candleOutcome, candleFiles>>

-----------------------------------------------------------------------------
(* The run of main. *)

Idle ==
    /\ i = 0
    /\ log = <<>>
    /\ ret = "idle"
    /\ body = "none"
    /\ cutoff = 0
    /\ filtered = <<>>
    /\ all_tx = <<>>
    /\ requested = {}
    /\ txOutcome = <<>>
    /\ insiderJson = NoFile
    /\ summary = NoSummary
    /\ summaryJson = NoFile
    /\ j = 0
    /\ candleOutcome = <<>>
    /\ candleFiles = {}

Init ==
    /\ apiKey \in {"", "k"}
    /\ pc = "main"
    /\ clock = 2 * Today
    /\ startClock = clock
    /\ transactions = <<>>
    /\ Idle

Next ==
    \/ Main_NoKey
    \/ Main_Start
    \/ BeginSymbol
    \/ ApiRateLimited
    \/ ApiForbidden
    \/ ApiError
    \/ ApiOk
    \/ HandleNoData
    \/ BeginFilter
    \/ FilterRecord
    \/ EndOfData
    \/ FetchReturn
    \/ SaveInsider
    \/ SaveSummary
    \/ CandleData
    \/ CandleEmpty
    \/ CandleError
    \/ Main_Done

Spec == Init /\ [][Next]_vars

-----------------------------------------------------------------------------
(* build_summary on lists of its own. *)

ZZZ == <<"Z", "Z", "Z">>

\* Who trades what: two registered symbols of one sector, one of another
\* sector, and a symbol the registry does not hold.
Entities == {<<AAPL, Al>>, <<MSFT, Al>>, <<AMZN, Bo>>, <<ZZZ, Bo>>}

\* (change, price)
Amounts == {<<-2, 1002>>, <<3, 2000>>, <<5, 0>>}

Record(sym, name, code, change, price) ==
    [sym |-> sym, name |-> name, code |-> code, change |-> change,
     price |-> price, share |-> 0, txDate |-> D_Oct01, fileDate |-> D_Oct03]

SummaryUniverse ==
    {Record(e[1], e[2], c, a[1], a[2]) :
        e \in Entities, c \in {CodeP, CodeS}, a \in Amounts}

InitSummary ==
    /\ apiKey = "k"
    /\ pc = "build_summary"
    /\ clock = 2 * Today
    /\ startClock = clock
    /\ transactions \in UNION {[1..n -> SummaryUniverse] : n \in 0..MaxLen}
    /\ Idle

NextSummary == BuildSummary

SpecSummary == InitSummary /\ [][NextSummary]_vars

\* The k-th record of a ranking input: an entity of its own, buying or
\* selling for one of two amounts.
RankRecords(k) ==
    {Record(<<"X", DigitChar(k)>>, <<"N", DigitChar(k)>>, c, 1, 1000 * v) :
        c \in {CodeP, CodeS}, v \in {k, MaxRank + 2 - k}}

RECURSIVE RankInputs(_)
RankInputs(n) ==
    IF n = 0 THEN {<<>>}
    ELSE {Append(s, r) : s \in RankInputs(n - 1), r \in RankRecords(n)}

InitRanking ==
    /\ apiKey = "k"
    /\ pc = "build_summary"
    /\ clock = 2 * Today
    /\ startClock = clock
    /\ transactions \in UNION {RankInputs(n) : n \in 0..MaxRank}
    /\ Idle

SpecRanking == InitRanking /\ [][NextSummary]_vars

-----------------------------------------------------------------------------
(* Vocabulary of the properties. *)

Elems(s) == {s[k] : k \in 1..Len(s)}

\* fetch_insider_transactions has returned to main.
PostFetch == pc \in {"save_insider", "save_summary", "candles", "done"}

SummaryBuilt == pc = "summary_built"

\* The identity key of a record.
Identity(tx) == <<tx.name, tx.txDate, tx.change, tx.sym>>

Deduplicated(txs) ==
    \A a, b \in 1..Len(txs) : a # b => Identity(txs[a]) # Identity(txs[b])

\* Every record of every list and file the fetch has produced so far.
KeptRecords ==
    Elems(filtered) \cup Elems(all_tx) \cup Elems(transactions)
    \cup (IF insiderJson.written THEN Elems(insiderJson.content) ELSE {})

\* The sum of |change x price| over the records at the positions I,
\* recomputed without build_summary's helpers.
RECURSIVE NaiveSum(_, _)
NaiveSum(txs, I) ==
    IF I = {} THEN 0
    ELSE LET k == CHOOSE x \in I : TRUE
             v == txs[k].change * txs[k].price
         IN  (IF v < 0 THEN 0 - v ELSE v) + NaiveSum(txs, I \ {k})

PositionsOf(txs, code) == {k \in 1..Len(txs) : txs[k].code = code}

RECURSIVE SumTotals(_)
SumTotals(d) == IF d = <<>> THEN 0 ELSE Head(d).total + SumTotals(Tail(d))

RECURSIVE SumCounts(_)
SumCounts(d) == IF d = <<>> THEN 0 ELSE Head(d).count + SumCounts(Tail(d))

\* v is s rounded to the cent: a multiple of 10 mills at most half a cent away.
RoundedToCent(v, s) == v % 10 = 0 /\ v - s <= 5 /\ s - v <= 5

-----------------------------------------------------------------------------
(* C1: every record the fetch keeps, up to the content of insider.json, has *)
(* code P or S, a nonzero share change, and an effective date that parses   *)
(* as a calendar date and is not older than 180 days at the start of the    *)
(* run.                                                                     *)

-----------------------------------------------------------------------------
(* C2: one api_call issues at most 3 requests, waits 30, 60, 90 s after a   *)
(* 429 on the first, second, third attempt, 60 s after a 403 and 5 s after  *)
(* any other failure, stops at the first success and returns its body, and  *)
(* returns None once 3 attempts have failed; a symbol whose call returned   *)
(* None contributes no transaction.                                         *)

C2_ApiCallRetries ==
    /\ Len(log) <= 3
    /\ \A k \in 1..Len(log) :
          /\ log[k].status = "429" => log[k].wait = 30 * k
          /\ log[k].status = "403" => log[k].wait = 60
          /\ log[k].status = "error" => log[k].wait = 5
          /\ log[k].status = "200" => k = Len(log) /\ ret = "json"
    /\ ret = "json" => Len(log) >= 1 /\ log[Len(log)].status = "200"
    /\ ret = "None" => Len(log) = 3 /\ \A k \in 1..3 : log[k].status # "200"
    /\ ret = "running" => Len(log) < 3
    /\ \A k \in 1..Len(txOutcome) :
          txOutcome[k] = "exhausted"
             => \A tx \in KeptRecords : tx.sym # Symbols[k]

\* A call that was rate limited twice, then failed otherwise, and returned None.
C2_Witness ==
    /\ ret = "None"
    /\ Len(log) = 3
    /\ log[1].status = "429" /\ log[2].status = "429"
    /\ log[3].status = "error"

-----------------------------------------------------------------------------
(* C3: with the credential present the run is at one of its positions and  *)
(* a next step is possible at each of them before the end (the step at      *)
(* "save_summary" has no condition but the position), whatever the          *)
(* providers did; at the end every registry symbol was requested,           *)
(* insider.json and summary.json are written, the candle fetch was          *)
(* attempted for every symbol of the final dataset, and exactly the symbols *)
(* whose candle fetch returned data have a candle file of this run.         *)

C3_NoFatalFailure ==
    apiKey # "" =>
        /\ pc \in {"main", "loop", "api", "returned", "filter", "save_insider",
                    "save_summary", "candles", "done"}
        /\ pc = "main" => ENABLED Main_Start
        /\ pc = "loop" => ENABLED (BeginSymbol \/ FetchReturn)
        /\ pc = "api" => ENABLED ApiOk /\ ENABLED ApiError
        /\ pc = "returned" => ENABLED (HandleNoData \/ BeginFilter)
        /\ pc = "filter" => ENABLED EndOfData
        /\ pc = "save_insider" => ENABLED SaveInsider
        /\ pc = "candles" => ENABLED (CandleData \/ Main_Done)
        /\ pc = "done" =>
              /\ requested = {SP500[k].sym : k \in 1..Len(SP500)}
              /\ Len(txOutcome) = Len(SP500)
              /\ insiderJson.written
              /\ summaryJson.written
              /\ LET active == {tx.sym : tx \in Elems(insiderJson.content)}
                 IN  /\ Len(candleOutcome) = Cardinality(active)
                     /\ candleFiles \subseteq active
                     /\ Cardinality(candleFiles)
                           = Cardinality({k \in 1..Len(candleOutcome) :
                                             candleOutcome[k] = "data"})
                     /\ \A k \in 1..Len(candleOutcome) :
                           candleOutcome[k] = "data"
                              <=> ActiveSymbols(transactions)[k] \in candleFiles

\* The second symbol exhausted its retries, the first candle fetch raised, and
\* the run went on to the end and wrote the next symbol's candle file.
C3_Witness ==
    /\ pc = "done"
    /\ txOutcome = <<"data", "exhausted", "data">>
    /\ candleOutcome = <<"error", "data">>
    /\ candleFiles = {AMZN}

-----------------------------------------------------------------------------
(* C4: without the credential no request goes to either provider and no    *)
(* file is written.                                                         *)

C4_NoKeyNoWork ==
    apiKey = "" =>
        /\ pc \in {"main", "aborted"}
        /\ requested = {}
        /\ candleOutcome = <<>>
        /\ ~insiderJson.written
        /\ ~summaryJson.written
        /\ candleFiles = {}

C4_Witness == apiKey = "" /\ pc = "aborted"

-----------------------------------------------------------------------------
(* C5: the returned sequence holds no two records with the same identity   *)
(* key, and holds a record for every identity key of the filtered input.   *)

C5_DedupeByIdentity ==
    PostFetch =>
        /\ \A a, b \in 1..Len(transactions) :
              a # b => Identity(transactions[a]) # Identity(transactions[b])
        /\ {Identity(tx) : tx \in Elems(transactions)}
              = {Identity(tx) : tx \in Elems(all_tx)}
        /\ Elems(transactions) \subseteq Elems(all_tx)

\* Two records that differ in the filing date only were reduced to one.
C5_Witness ==
    /\ PostFetch
    /\ Len(all_tx) = 2
    /\ Identity(all_tx[1]) = Identity(all_tx[2])
    /\ all_tx[1].fileDate # all_tx[2].fileDate
    /\ Len(transactions) = 1

-----------------------------------------------------------------------------
(* C6: the returned sequence is time-descending: of two records, the       *)
(* earlier one in the sequence has the same or a later calendar date.      *)

C6_TimeDescending ==
    PostFetch =>
        \A a, b \in 1..Len(transactions) :
            a < b => Strptime(transactions[a].txDate).ord
                        >= Strptime(transactions[b].txDate).ord

-----------------------------------------------------------------------------
(* C7, as claimed: on a deduplicated input the counts are the numbers of    *)
(* purchases and sales, buyVal and sellVal are the sums of |change x price| *)
(* over them, and the per-symbol totals and counts add up to these.         *)

C7_TotalsEqualSums ==
    (SummaryBuilt /\ Deduplicated(transactions)) =>
        LET P == PositionsOf(transactions, <<"P">>)
            S == PositionsOf(transactions, <<"S">>)
        IN  /\ summary.buyCount = Cardinality(P)
            /\ summary.sellCount = Cardinality(S)
            /\ summary.buyCount + summary.sellCount = Len(transactions)
            /\ summary.buyVal = NaiveSum(transactions, P)
            /\ summary.sellVal = NaiveSum(transactions, S)
            /\ SumTotals(BuyStocks(transactions)) = summary.buyVal
            /\ SumTotals(SellStocks(transactions)) = summary.sellVal
            /\ SumCounts(BuyStocks(transactions)) = summary.buyCount
            /\ SumCounts(SellStocks(transactions)) = summary.sellCount

(* C7, amended: buyVal and sellVal are these sums rounded to the cent; the  *)
(* per-symbol totals add up to the sums before rounding.                    *)

C7_TotalsRoundedSums ==
    (SummaryBuilt /\ Deduplicated(transactions)) =>
        LET P == PositionsOf(transactions, <<"P">>)
            S == PositionsOf(transactions, <<"S">>)
        IN  /\ summary.buyCount = Cardinality(P)
            /\ summary.sellCount = Cardinality(S)
            /\ summary.buyCount + summary.sellCount = Len(transactions)
            /\ RoundedToCent(summary.buyVal, NaiveSum(transactions, P))
            /\ RoundedToCent(summary.sellVal, NaiveSum(transactions, S))
            /\ SumTotals(BuyStocks(transactions)) = NaiveSum(transactions, P)
            /\ SumTotals(SellStocks(transactions)) = NaiveSum(transactions, S)
            /\ SumCounts(BuyStocks(transactions)) = summary.buyCount
            /\ SumCounts(SellStocks(transactions)) = summary.sellCount

\* Two purchases and a sale of three symbols, with sums that are no whole cents.
C7_Witness ==
    /\ SummaryBuilt
    /\ Deduplicated(transactions)
    /\ summary.buyCount = 2
    /\ summary.sellCount = 1
    /\ Len(BuyStocks(transactions)) = 2
    /\ summary.buyVal # NaiveSum(transactions, PositionsOf(transactions, <<"P">>))
    /\ summary.sellVal # NaiveSum(transactions, PositionsOf(transactions, <<"S">>))

-----------------------------------------------------------------------------
(* The candidates of a ranking, recomputed from the input.                  *)

\* Positions of the purchases (buy = TRUE) or of the other records.
SidePositions(txs, buy) ==
    {k \in 1..Len(txs) : (txs[k].code = <<"P">>) = buy}

StockCandidates(txs, buy) == {txs[k].sym : k \in SidePositions(txs, buy)}

InsiderCandidates(txs, buy) == {txs[k].name : k \in SidePositions(txs, buy)}

StockTotal(txs, buy, sym) ==
    NaiveSum(txs, {k \in SidePositions(txs, buy) : txs[k].sym = sym})

InsiderTotal(txs, buy, name) ==
    NaiveSum(txs, {k \in SidePositions(txs, buy) : txs[k].name = name})

\* The ranking lists candidates, each once and with its total, at most 5 of
\* them and all of them when there are no more than 5.
ListsCandidates(r, cands, Total(_)) ==
    /\ Len(r) <= 5
    /\ Len(r) = (IF Cardinality(cands) < 5 THEN Cardinality(cands) ELSE 5)
    /\ \A a \in 1..Len(r) : r[a].key \in cands /\ r[a].total = Total(r[a].key)
    /\ \A a, b \in 1..Len(r) : a # b => r[a].key # r[b].key

\* No candidate left out has a larger total than a listed one.
LeftOutAreSmaller(r, cands, Total(_)) ==
    \A c \in cands \ {r[a].key : a \in 1..Len(r)} :
        \A a \in 1..Len(r) : Total(c) <= r[a].total

StrictlyDescending(r) == \A a, b \in 1..Len(r) : a < b => r[a].total > r[b].total

NonIncreasing(r) == \A a, b \in 1..Len(r) : a < b => r[a].total >= r[b].total

RankingOk(r, cands, Total(_)) ==
    ListsCandidates(r, cands, Total) /\ LeftOutAreSmaller(r, cands, Total)

AllRankingsOk ==
    LET t == transactions
        BuyStock(x) == StockTotal(t, TRUE, x)
        SellStock(x) == StockTotal(t, FALSE, x)
        BuyInsider(x) == InsiderTotal(t, TRUE, x)
        SellInsider(x) == InsiderTotal(t, FALSE, x)
    IN  /\ RankingOk(summary.topBuyStocks, StockCandidates(t, TRUE), BuyStock)
        /\ RankingOk(summary.topSellStocks, StockCandidates(t, FALSE), SellStock)
        /\ RankingOk(summary.topBuyInsiders, InsiderCandidates(t, TRUE),
                     BuyInsider)
        /\ RankingOk(summary.topSellInsiders, InsiderCandidates(t, FALSE),
                     SellInsider)

-----------------------------------------------------------------------------
(* C8, as claimed: each of the four rankings holds at most 5 entries, is    *)
(* sorted strictly descending by total, and leaves out no entity with a     *)
(* larger total than a listed one.                                          *)

C8_StrictlyDescending ==
    SummaryBuilt =>
        /\ AllRankingsOk
        /\ StrictlyDescending(summary.topBuyStocks)
        /\ StrictlyDescending(summary.topSellStocks)
        /\ StrictlyDescending(summary.topBuyInsiders)
        /\ StrictlyDescending(summary.topSellInsiders)

(* C8, amended: each of the four rankings holds at most 5 entries, is       *)
(* sorted descending by total with equal totals allowed next to each other, *)
(* and leaves out no entity with a larger total than a listed one.          *)

C8_TopFiveDescending ==
    SummaryBuilt =>
        /\ AllRankingsOk
        /\ NonIncreasing(summary.topBuyStocks)
        /\ NonIncreasing(summary.topSellStocks)
        /\ NonIncreasing(summary.topBuyInsiders)
        /\ NonIncreasing(summary.topSellInsiders)

\* Six buying symbols, five of them listed, two of the listed with one total.
C8_Witness ==
    /\ SummaryBuilt
    /\ Cardinality(StockCandidates(transactions, TRUE)) = 6
    /\ Len(summary.topBuyStocks) = 5
    /\ \E a \in 1..4 :
          summary.topBuyStocks[a].total = summary.topBuyStocks[a + 1].total
    /\ summary.topBuyStocks[1].total > summary.topBuyStocks[5].total

-----------------------------------------------------------------------------
(* C9: a transaction on a symbol the registry does not hold creates no     *)
(* sector and adds to no sector's buys or sells, and is counted in the      *)
(* global counts and values; a transaction on a registered symbol adds its  *)
(* value to the sector the registry gives for its symbol and to no other.   *)

SectorPositions(txs, sec, buy) ==
    {k \in SidePositions(txs, buy) :
        \E e \in 1..Len(SP500) : SP500[e].sym = txs[k].sym /\ SP500[e].s = sec}

C9_SectorRollup ==
    SummaryBuilt =>
        LET t == transactions
            secs == summary.sectors
        IN  /\ {secs[a].key : a \in 1..Len(secs)}
                  = {SP500[e].s : e \in {x \in 1..Len(SP500) :
                                    \E k \in 1..Len(t) : t[k].sym = SP500[x].sym}}
            /\ \A a, b \in 1..Len(secs) : a # b => secs[a].key # secs[b].key
            /\ \A a \in 1..Len(secs) :
                  /\ secs[a].buys
                        = NaiveSum(t, SectorPositions(t, secs[a].key, TRUE))
                  /\ secs[a].sells
                        = NaiveSum(t, SectorPositions(t, secs[a].key, FALSE))
            /\ summary.buyCount = Cardinality(PositionsOf(t, <<"P">>))
            /\ summary.sellCount = Cardinality(PositionsOf(t, <<"S">>))
            /\ RoundedToCent(summary.buyVal,
                             NaiveSum(t, PositionsOf(t, <<"P">>)))
            /\ RoundedToCent(summary.sellVal,
                             NaiveSum(t, PositionsOf(t, <<"S">>)))

\* A purchase of value on the unregistered symbol beside purchases on two
\* registered symbols of one sector.
C9_Witness ==
    /\ SummaryBuilt
    /\ Len(transactions) = 3
    /\ transactions[1].sym = ZZZ /\ transactions[1].code = <<"P">>
    /\ transactions[1].price > 0
    /\ transactions[2].sym = AAPL /\ transactions[2].code = <<"P">>
    /\ transactions[3].sym = MSFT /\ transactions[3].code = <<"P">>
    /\ Len(summary.sectors) = 1
    /\ summary.buyCount = 3

-----------------------------------------------------------------------------
(* C10, as claimed: every purchase is added to its insider's total and     *)
(* appended to its insider's transaction list, as every sale is on the     *)
(* sell side.                                                              *)

\* The entry of the ranking lists count(name) transactions (at most 5).
ListLengths(r, Count(_)) ==
    \A a \in 1..Len(r) :
        Len(r[a].txs) = (IF Count(r[a].key) < 5 THEN Count(r[a].key) ELSE 5)

InsiderPositions(txs, buy, name) ==
    {k \in SidePositions(txs, buy) : txs[k].name = name}

\* The purchases of `name` that are its first or have a value above 0.
FirstOrValued(txs, name) ==
    {k \in InsiderPositions(txs, TRUE, name) :
        \/ txs[k].change * txs[k].price # 0
        \/ \A q \in InsiderPositions(txs, TRUE, name) : k <= q}

InsiderTotalsOk ==
    LET t == transactions
    IN  /\ \A a \in 1..Len(summary.topBuyInsiders) :
              summary.topBuyInsiders[a].total
                 = InsiderTotal(t, TRUE, summary.topBuyInsiders[a].key)
        /\ \A a \in 1..Len(summary.topSellInsiders) :
              summary.topSellInsiders[a].total
                 = InsiderTotal(t, FALSE, summary.topSellInsiders[a].key)

====
